---- MODULE Spec2Model ----
(***************************************************************************)
(* Transport planning (pages/20_Planning.py): the bin-packing helper       *)
(* optimize_transport and the main planning loop that groups the rows by   *)
(* flight, packs every group into trucks and assigns a driver to every     *)
(* truck from station-keyed round-robin pools.                             *)
(*                                                                         *)
(* A Python str is modelled as a sequence of one-character strings, so     *)
(* that strip / upper / lower / substring tests are computed, not assumed. *)
(***************************************************************************)
EXTENDS Integers, Sequences, FiniteSets, TLC

VARIABLES
    config,           \* the sidebar settings of layout, origin and columns
    df,               \* the sheet as read: number of columns and raw rows
    bags_per_truck,   \* the capacity slider value (max_cap)
    data,             \* the normalised rows, in sheet order
    drivers_list,     \* the roster returned by fetch_drivers
    run,              \* number of the script execution (1 or 2)
    prev_trucks,      \* all_trucks of the previous execution (<<>> in run 1)
    groups_left,      \* the group keys the for loop has still to visit
    station_key,      \* station key resolved for the current group
    dest_groups,      \* optimize_transport: items not yet finished (head = current)
    qty_left,         \* optimize_transport: qty_left of the current item
    trucks,           \* optimize_transport: trucks of the current group
    full_made,        \* ghost: indices of trucks appended by the while loop
    t_idx,            \* index in trucks of the next truck to annotate
    station_indices,  \* round-robin cursor per station
    idx_any,          \* round-robin cursor of the fallback pool
    all_trucks,       \* the annotated trucks of the run
    current_truck_global_id, \* the counter of trucks of the run
    pc                \* "extract" | "config_error" | "groups" | "pack" |
                      \* "assign" | "done" | "error"

vars == <<config, df, bags_per_truck, data, drivers_list, run, prev_trucks, groups_left,
          station_key, dest_groups, qty_left, trucks, full_made, t_idx,
          station_indices, idx_any, all_trucks, current_truck_global_id, pc>>

----------------------------------------------------------------------------
(* Bounds of the model *)

\* most rows of a sheet in the packing family of inputs
MaxRows == 3
\* largest Total_Items of a row in the packing family of inputs
MaxQty == 4
\* most rows of a sheet in the driver-assignment family of inputs
MaxRunRows == 3
\* most drivers of a roster
MaxDrivers == 2
\* most rows of a sheet in the station-resolution family of inputs
MaxStationRows == 2
\* most rows of a sheet in the destination family of inputs
MaxDestRows == 3
\* most data rows of a raw sheet
MaxSheetRows == 2

----------------------------------------------------------------------------
(* Strings *)

Letters_lower ==
    <<"a", "b", "c", "d", "e", "f", "g", "h", "i", "j", "k", "l", "m",
      "n", "o", "p", "q", "r", "s", "t", "u", "v", "w", "x", "y", "z">>
Letters_upper ==
    <<"A", "B", "C", "D", "E", "F", "G", "H", "I", "J", "K", "L", "M",
      "N", "O", "P", "Q", "R", "S", "T", "U", "V", "W", "X", "Y", "Z">>
Digits_char == <<"0", "1", "2", "3", "4", "5", "6", "7", "8", "9">>

\* the characters used, in code-point order (what Python compares strings by)
CodeOrder ==
    <<" ", "#", "(", ")", "-", "/">> \o Digits_char \o Letters_upper
        \o Letters_lower

Ord(c) == CHOOSE i \in 1..Len(CodeOrder) : CodeOrder[i] = c

UpperChar(c) ==
    IF \E i \in 1..Len(Letters_lower) : Letters_lower[i] = c
    THEN Letters_upper[CHOOSE i \in 1..Len(Letters_lower) : Letters_lower[i] = c]
    ELSE c

LowerChar(c) ==
    IF \E i \in 1..Len(Letters_upper) : Letters_upper[i] = c
    THEN Letters_lower[CHOOSE i \in 1..Len(Letters_upper) : Letters_upper[i] = c]
    ELSE c

\* str.upper()
Upper(s) == [i \in 1..Len(s) |-> UpperChar(s[i])]

\* str.lower()
Lower(s) == [i \in 1..Len(s) |-> LowerChar(s[i])]

\* str.strip(): drops the leading and the trailing blanks
Strip(s) ==
    LET nb == {i \in 1..Len(s) : s[i] # " "}
    IN  IF nb = {} THEN <<>>
        ELSE LET lo == CHOOSE i \in nb : \A j \in nb : i <= j
                 hi == CHOOSE i \in nb : \A j \in nb : i >= j
             IN  SubSeq(s, lo, hi)

\* sub in s
Contains(sub, s) ==
    \E i \in 0..(Len(s) - Len(sub)) : SubSeq(s, i + 1, i + Len(sub)) = sub

\* a < b for Python strings (lexicographic by code point)
StrLess(a, b) ==
    \E k \in 1..(Len(b)) :
        /\ k <= Len(a) + 1
        /\ \A j \in 1..(k - 1) : a[j] = b[j]
        /\ IF k = Len(a) + 1 THEN TRUE ELSE Ord(a[k]) < Ord(b[k])

\* sorted(list(S)) for a set S of strings
RECURSIVE SortedStrs(_)
SortedStrs(S) ==
    IF S = {} THEN <<>>
    ELSE LET m == CHOOSE x \in S : \A y \in S : y = x \/ StrLess(x, y)
         IN  <<m>> \o SortedStrs(S \ {m})

STR_BKK == <<"B", "K", "K">>
STR_DMK == <<"D", "M", "K">>
STR_ANY == <<"A", "N", "Y">>
STR_Other == <<"O", "t", "h", "e", "r">>
STR_dash == <<"-">>
STR_NoDriver == <<"N", "o", " ", "D", "r", "i", "v", "e", "r">>

\* the values that optimize_transport redirects to "Other"
InvalidDest ==
    { <<"n", "a", "n">>, <<>>, <<"n", "o", "n", "e">>, <<"n", "a", "t">>,
      <<"#", "n", "/", "a">> }

----------------------------------------------------------------------------
(* optimize_transport *)

\* a comparison with the invalid values that minds the case
DestOf_caseSensitive(row) ==
    LET d == Strip(row.Destination)
    IN  IF d \in InvalidDest THEN STR_Other ELSE d

\* the destination of a row: trimmed, invalid values redirected to "Other"
DestOf(row) ==
    LET d == Strip(row.Destination)
    IN  IF Lower(d) \in InvalidDest THEN STR_Other ELSE d

\* a filter that lets rows of quantity 0 through
KeepRow_nonNegative(qty) == qty >= 0

\* a row takes part in the packing when its quantity is positive
KeepRow(qty) == qty > 0

\* the loop over flight_data.iterrows() that fills dest_groups
RECURSIVE BuildDestGroups(_)
BuildDestGroups(flight_data) ==
    IF flight_data = <<>> THEN <<>>
    ELSE LET row == Head(flight_data)
             rest == BuildDestGroups(Tail(flight_data))
         IN  IF KeepRow(row.Total_Items)
             THEN <<[dest |-> DestOf(row), qty |-> row.Total_Items,
                     group |-> row.Group]>> \o rest
             ELSE rest

\* a sort that lets a later item overtake an earlier one of equal quantity
SortsBefore_orEqual(x, y) == x.qty >= y.qty

\* x goes before y in dest_groups.sort(key=qty, reverse=True)
SortsBefore(x, y) == x.qty > y.qty

\* list.sort is stable, also with reverse=True: x is put behind every item
\* that does not sort after it
RECURSIVE InsertSorted(_, _)
InsertSorted(x, s) ==
    IF s = <<>> THEN <<x>>
    ELSE IF SortsBefore(x, Head(s)) THEN <<x>> \o s
         ELSE <<Head(s)>> \o InsertSorted(x, Tail(s))

RECURSIVE SortDestGroups(_)
SortDestGroups(s) ==
    IF s = <<>> THEN <<>>
    ELSE InsertSorted(s[Len(s)], SortDestGroups(SubSeq(s, 1, Len(s) - 1)))

\* the dict appended to trucks for n units of one item
NewTruck(item, n) ==
    [stops |-> {item.dest},
     items |-> n,
     load |-> <<[dest |-> item.dest, qty |-> n, group |-> item.group]>>,
     multi_drop |-> FALSE]

\* a loop that stops as soon as what is left is just one truckload
FullTruckCond_strict(q, max_cap) == q > max_cap

\* the condition of the while loop
FullTruckCond(q, max_cap) == q >= max_cap

\* a scan that compares the remainder with the capacity, not with the free space
Fits_ignoresLoad(truck, q, max_cap) == max_cap >= q

\* a scan that wants more free space than the remainder needs
Fits_strict(truck, q, max_cap) == max_cap - truck.items > q

\* the test of the first-fit scan: space >= qty_left
Fits(truck, q, max_cap) == max_cap - truck.items >= q

\* multi_drop taken from the number of load entries instead of the stops
MultiDropOf_byLoad(truck) == Len(truck.load) > 1

\* multi_drop as recomputed after a remainder is added
MultiDropOf(truck) == Cardinality(truck.stops) > 1

\* an addition that forgets to count the units
AddToTruck_keepsItems(truck, item, q) ==
    LET t == [truck EXCEPT !.stops = @ \cup {item.dest},
                           !.load = Append(@, [dest |-> item.dest, qty |-> q,
                                               group |-> item.group])]
    IN  [t EXCEPT !.multi_drop = Cardinality(t.stops) > 1]

\* the body of the first-fit scan for the truck that fits
AddToTruck(truck, item, q) ==
    LET t == [truck EXCEPT !.stops = @ \cup {item.dest},
                           !.items = @ + q,
                           !.load = Append(@, [dest |-> item.dest, qty |-> q,
                                               group |-> item.group])]
    IN  [t EXCEPT !.multi_drop = MultiDropOf(t)]

\* a remainder of one unit is dropped
HasRemainder_dropsOne(q) == q > 1

\* the remainder is placed only when something is left
HasRemainder(q) == q > 0

\* the if qty_left > 0 block: first fit in creation order, else a new truck
PlaceRemainder(ts, item, q, max_cap) ==
    IF ~HasRemainder(q) THEN ts
    ELSE LET fit == {i \in 1..Len(ts) : Fits(ts[i], q, max_cap)}
         IN  IF fit # {}
             THEN LET i == CHOOSE i \in fit : \A j \in fit : i <= j
                  IN  [ts EXCEPT ![i] = AddToTruck(ts[i], item, q)]
             ELSE Append(ts, NewTruck(item, q))

\* one item of the for loop: the full trucks, then the remainder
RECURSIVE PackItem(_, _, _, _)
PackItem(ts, item, q, max_cap) ==
    IF FullTruckCond(q, max_cap)
    THEN PackItem(Append(ts, NewTruck(item, max_cap)), item, q - max_cap, max_cap)
    ELSE PlaceRemainder(ts, item, q, max_cap)

RECURSIVE PackAll(_, _, _)
PackAll(ts, items, max_cap) ==
    IF items = <<>> THEN ts
    ELSE PackAll(PackItem(ts, Head(items), Head(items).qty, max_cap),
                 Tail(items), max_cap)

\* optimize_transport as a function of its arguments
OptimizeTransport(flight_data, max_cap) ==
    PackAll(<<>>, SortDestGroups(BuildDestGroups(flight_data)), max_cap)

----------------------------------------------------------------------------
(* Main logic: driver pools, groups, driver assignment *)

\* drivers_by_station: the roster split by Station, each pool in roster order
DriversByStation(list) ==
    [s \in {list[i].Station : i \in 1..Len(list)} |->
        SelectSeq(list, LAMBDA d : d.Station = s)]

\* station_indices = {k: 0 for k in drivers_by_station.keys()}
StationIndexStart(k) == 0

\* the fallback cursor kept from the previous execution of the script
IdxAnyStart_carried == IF pc \in {"done", "error"} THEN idx_any ELSE 0

\* idx_any = 0
IdxAnyStart == 0

\* pool_any = drivers_by_station.get("ANY", [])
PoolAny(dbs) == IF STR_ANY \in DOMAIN dbs THEN dbs[STR_ANY] ELSE <<>>

\* the key pandas groups a row by; Sort_Key is str(Time)
GroupKey(row) ==
    <<row.Origin, row.Country, row.Date, row.Time, row.Flight, row.Time>>

\* order of two group keys: by Origin as a string, then by the other columns
KeyLess(a, b) ==
    \/ StrLess(a[1], b[1])
    \/ /\ a[1] = b[1]
       /\ \E k \in 2..6 :
            /\ a[k] < b[k]
            /\ \A j \in 2..(k - 1) : a[j] = b[j]

\* groupby yields the groups in ascending key order
RECURSIVE SortedKeys(_)
SortedKeys(K) ==
    IF K = {} THEN <<>>
    ELSE LET m == CHOOSE x \in K : \A y \in K : y = x \/ KeyLess(x, y)
         IN  <<m>> \o SortedKeys(K \ {m})

\* a missing value (NaN) in a key column; the values present are 1 and up
NaN == -1

\* groupby leaves out the rows with a missing value in a key column
\* (dropna=True); Origin is a text in every row of the sheets here
HasAllKeys(row) ==
    /\ row.Country # NaN /\ row.Date # NaN /\ row.Time # NaN
    /\ row.Flight # NaN

SortedGroups(rows) ==
    SortedKeys({GroupKey(rows[i]) :
                   i \in {j \in 1..Len(rows) : HasAllKeys(rows[j])}})

RECURSIVE total_items_all(_)
\* the Total Items metric: data["Total_Items"].sum()
total_items_all(rows) ==
    IF rows = <<>> THEN 0
    ELSE Head(rows).Total_Items + total_items_all(Tail(rows))

\* group_df: the rows of one key, in sheet order
GroupDf(rows, key) == SelectSeq(rows, LAMBDA r : GroupKey(r) = key)

\* a resolution that looks for the airport codes before the roster's stations
ResolveStation_substringFirst(origin, dbs) ==
    LET origin_raw == Upper(Strip(origin))
    IN  IF Contains(STR_BKK, origin_raw) THEN STR_BKK
        ELSE IF Contains(STR_DMK, origin_raw) THEN STR_DMK
        ELSE IF origin_raw \in DOMAIN dbs THEN origin_raw
        ELSE STR_ANY

\* the station key of a group, from the Origin of its first row
ResolveStation(origin, dbs) ==
    LET origin_raw == Upper(Strip(origin))
        by_name == IF Contains(STR_BKK, origin_raw) THEN STR_BKK
                   ELSE IF Contains(STR_DMK, origin_raw) THEN STR_DMK
                   ELSE STR_ANY
    IN  IF origin_raw \in DOMAIN dbs THEN origin_raw ELSE by_name

\* which pool serves a truck of station key k: "station", "any" or "none"
PoolChoice(k, dbs) ==
    IF k \in DOMAIN dbs /\ dbs[k] # <<>> THEN "station"
    ELSE IF PoolAny(dbs) # <<>> THEN "any"
    ELSE "none"

\* pool[idx % len(pool)], Python lists being 0-based
PoolAt(pool, idx) == pool[(idx % Len(pool)) + 1]

\* the driver columns of a truck that got a driver
DriverFields(d) ==
    [Car_Plate |-> d.License_Plate, Driver |-> d.Driver_Name, Phone |-> d.Phone]

\* a truck without driver left with blank columns
NoDriverFields_blank ==
    [Car_Plate |-> STR_dash, Driver |-> STR_dash, Phone |-> STR_dash]

\* the driver columns of a truck that got none
NoDriverFields ==
    [Car_Plate |-> STR_NoDriver, Driver |-> STR_dash, Phone |-> STR_dash]

\* the driver columns chosen for the next truck of station key k
SelectedDriver(k, dbs, indices, any_idx) ==
    CASE PoolChoice(k, dbs) = "station" -> DriverFields(PoolAt(dbs[k], indices[k]))
      [] PoolChoice(k, dbs) = "any" -> DriverFields(PoolAt(PoolAny(dbs), any_idx))
      [] OTHER -> NoDriverFields

\* " + ".join(names)
RECURSIVE JoinPlus(_)
JoinPlus(names) ==
    IF names = <<>> THEN <<>>
    ELSE IF Len(names) = 1 THEN names[1]
    ELSE names[1] \o <<" ", "+", " ">> \o JoinPlus(Tail(names))

\* the record appended to all_trucks for truck t of the group of row first
Annotate(t, first, drv) ==
    [stops |-> t.stops, items |-> t.items, load |-> t.load,
     multi_drop |-> t.multi_drop,
     Origin |-> first.Origin, Date |-> first.Date, Time |-> first.Time,
     Flight |-> first.Flight, Country |-> first.Country,
     Stops_Str |-> JoinPlus(SortedStrs(t.stops)),
     Car_Plate |-> drv.Car_Plate, Driver |-> drv.Driver, Phone |-> drv.Phone]

\* a station cursor that starts again with every flight group
AdvanceStation_perGroup(indices, k, c) ==
    IF c = "station"
    THEN [indices EXCEPT ![k] = IF t_idx = Len(trucks) THEN 0 ELSE @ + 1]
    ELSE indices

\* the cursor of station k after a truck was served by pool choice c
AdvanceStation(indices, k, c) ==
    IF c = "station" THEN [indices EXCEPT ![k] = @ + 1] ELSE indices

\* a fallback cursor that counts every truck that got a driver
AdvanceAny_everyDriver(any_idx, c) == IF c # "none" THEN any_idx + 1 ELSE any_idx

\* the fallback cursor after a truck was served by pool choice c
AdvanceAny(any_idx, c) == IF c = "any" THEN any_idx + 1 ELSE any_idx

----------------------------------------------------------------------------
(* Data extraction: from the raw sheet to the normalised rows *)

\* a cell of the sheet: missing (NaN), a number or a text
CellNaN == [t |-> "nan"]
CellNum(n) == [t |-> "num", n |-> n]
CellStr(s) == [t |-> "str", s |-> s]

\* pd.isna
IsNa(x) == x.t = "nan"

\* str(n) of a number of one digit
NumStr(n) == <<Digits_char[n + 1]>>

\* str(x) of a cell
PyStr(x) ==
    IF x.t = "nan" THEN <<"n", "a", "n">>
    ELSE IF x.t = "str" THEN x.s
    ELSE NumStr(x.n)

\* the value of a cell as the frame holds it
RawVal(x) == IF x.t = "num" THEN x.n ELSE IF x.t = "str" THEN x.s ELSE x

\* the value of a cell of a key column as the frame holds it
KeyVal(x) == IF IsNa(x) THEN NaN ELSE RawVal(x)

\* float('inf'): larger than every quantity of a sheet
Inf == 1000

\* addition and comparison go through for inf as IEEE arithmetic has them
FAdd(a, b) == IF a = Inf \/ b = Inf THEN Inf ELSE a + b

IsDigitChar(c) == \E i \in 1..Len(Digits_char) : Digits_char[i] = c

DigitVal(c) == (CHOOSE i \in 1..Len(Digits_char) : Digits_char[i] = c) - 1

AllDigits(s) == s # <<>> /\ \A i \in 1..Len(s) : IsDigitChar(s[i])

RECURSIVE DigitsValue(_)
DigitsValue(s) ==
    IF s = <<>> THEN 0
    ELSE DigitsValue(SubSeq(s, 1, Len(s) - 1)) * 10 + DigitVal(s[Len(s)])

\* the spellings of infinity that float() accepts, lower-cased
InfWords == { <<"i", "n", "f">>, <<"i", "n", "f", "i", "n", "i", "t", "y">> }

\* float(s) of a text raises ValueError; the texts of the sheets are digits,
\* words and placeholders, without sign, point or exponent
FloatRaises(s) ==
    LET z == Strip(s)
    IN  ~(Lower(z) \in InfWords \/ AllDigits(z))

\* float(s) of a text that float() accepts: white space around it is
\* ignored, and so is the case of inf and infinity
FloatOf(s) ==
    LET z == Strip(s)
    IN  IF Lower(z) \in InfWords THEN Inf ELSE DigitsValue(z)

\* clean_num of the detailed layout
clean_num(x) ==
    IF IsNa(x) \/ Strip(PyStr(x)) \in {<<"-">>, <<>>, <<"n", "a", "n">>}
    THEN 0
    ELSE IF x.t = "num" THEN x.n
    ELSE IF FloatRaises(x.s) THEN 0
    ELSE FloatOf(x.s)

\* pd.to_numeric(errors="coerce").fillna(0) of a quantity cell that is a
\* number, a text of digits or another text without a numeric reading
ToNumeric(x) ==
    IF x.t = "num" THEN x.n
    ELSE IF x.t = "str" /\ AllDigits(x.s) THEN DigitsValue(x.s)
    ELSE 0

MaxOf(S) == CHOOSE m \in S : \A x \in S : x <= m

\* the column indices of the detailed layout
req_indices(cfg) == {1, 2, 3, 4, 9, 11, 12, 13, 14, cfg.dest_col_idx}

\* the column indices of the simple layout
target_cols(cfg) ==
    {cfg.c_country, cfg.c_date, cfg.c_flight, cfg.c_time, cfg.c_hotel,
     cfg.c_qty}
        \cup (IF cfg.origin_mode = "column" THEN {cfg.c_origin} ELSE {})

\* the two "Validate bounds" tests that end the run with st.error, st.stop
BoundsError(cfg, ncols) ==
    IF cfg.layout_mode = "detailed"
    THEN MaxOf(req_indices(cfg)) >= ncols
    ELSE MaxOf(target_cols(cfg)) >= ncols

STR_Unknown == <<"U", "n", "k", "n", "o", "w", "n">>

\* the sheet name, which the detailed layout uses as Country
selected_sheet == 1

\* the detailed layout: the rows after the first, the columns by position,
\* rows without Flight or Time dropped, the four counts cleaned and summed.
\* Destination is kept as str(cell), the form optimize_transport reads it in
ExtractDetailed(cfg, d) ==
    LET body == SubSeq(d.rows, 2, Len(d.rows))
        kept == SelectSeq(body, LAMBDA row : ~IsNa(row[2]) /\ ~IsNa(row[3]))
    IN  [i \in 1..Len(kept) |->
            LET row == kept[i]
            IN  [Origin |-> IF cfg.origin_mode = "fix" THEN cfg.selected_origin
                            ELSE IF cfg.c_origin < d.ncols
                                 THEN PyStr(row[cfg.c_origin])
                                 ELSE STR_Unknown,
                 Country |-> selected_sheet,
                 Date |-> KeyVal(row[1]),
                 Time |-> KeyVal(row[3]),
                 Flight |-> KeyVal(row[2]),
                 Destination |-> PyStr(row[cfg.dest_col_idx]),
                 Total_Items |->
                     FAdd(FAdd(clean_num(row[13]), clean_num(row[14])),
                          FAdd(clean_num(row[11]), clean_num(row[12]))),
                 Group |-> row[4]]]

\* the simple layout: all rows, the columns by the configured positions, rows
\* without Flight or quantity dropped, the quantity coerced
ExtractSimple(cfg, d) ==
    LET kept == SelectSeq(d.rows, LAMBDA row :
                    ~IsNa(row[cfg.c_flight]) /\ ~IsNa(row[cfg.c_qty]))
    IN  [i \in 1..Len(kept) |->
            LET row == kept[i]
            IN  [Origin |-> IF cfg.origin_mode = "fix" THEN cfg.selected_origin
                            ELSE RawVal(row[cfg.c_origin]),
                 Country |-> KeyVal(row[cfg.c_country]),
                 Date |-> KeyVal(row[cfg.c_date]),
                 Time |-> KeyVal(row[cfg.c_time]),
                 Flight |-> KeyVal(row[cfg.c_flight]),
                 Destination |-> PyStr(row[cfg.c_hotel]),
                 Total_Items |-> ToNumeric(row[cfg.c_qty]),
                 Group |-> STR_dash]]

ExtractData(cfg, d) ==
    IF cfg.layout_mode = "detailed" THEN ExtractDetailed(cfg, d)
    ELSE ExtractSimple(cfg, d)

----------------------------------------------------------------------------
(* Inputs *)

SeqsUpTo(S, n) == UNION {[1..k -> S] : k \in 0..n}

STR_A == <<"A">>
STR_B == <<"B">>

STR_BKK_Suvarnabhumi ==
    <<"B", "K", "K", " ", "(", "S", "u", "v", "a", "r", "n", "a", "b", "h",
      "u", "m", "i", ")">>

\* the sidebar as it comes up, with the first airport picked
DefaultConfig ==
    [layout_mode |-> "simple", origin_mode |-> "fix",
     selected_origin |-> STR_BKK_Suvarnabhumi, dest_col_idx |-> 16,
     c_country |-> 0, c_date |-> 1, c_flight |-> 2, c_time |-> 3,
     c_hotel |-> 4, c_qty |-> 5, c_origin |-> -1]

\* the settings of the runs that start from normalised rows: the simple
\* layout with the origin read from column 6
ColumnConfig == [DefaultConfig EXCEPT !.origin_mode = "column", !.c_origin = 6]

\* the sheet of the runs that start from normalised rows: nothing after the
\* extraction looks at it again, and these states leave its cells out
SheetRead == [ncols |-> 0, rows |-> <<>>]

\* a raw row of ncols columns with the given cells, NaN elsewhere
MkRow(ncols, cells) ==
    [c \in 0..(ncols - 1) |-> IF c \in DOMAIN cells THEN cells[c] ELSE CellNaN]

\* a row in the detailed layout: date, flight, time, group, a station name in
\* column 6, the four counts (WC_Man, WC_Elec, Luggage, Sport_Eq), the
\* destination in column 16
DetailedRow(ncols, flight, counts) ==
    MkRow(ncols, 1 :> CellNum(1) @@ 2 :> flight @@ 3 :> CellNum(1)
                 @@ 4 :> CellStr(<<"G">>) @@ 6 :> CellStr(STR_DMK)
                 @@ 11 :> counts[1] @@ 12 :> counts[2] @@ 13 :> counts[3]
                 @@ 14 :> counts[4] @@ 16 :> CellStr(STR_A))

\* a row in the simple layout: country, date, flight, time, hotel, quantity
\* and a station name in column 6
SimpleRow(ncols, flight, qty) ==
    MkRow(ncols, 0 :> CellNum(1) @@ 1 :> CellNum(1) @@ 2 :> flight
                 @@ 3 :> CellNum(1) @@ 4 :> CellStr(STR_A) @@ 5 :> qty
                 @@ 6 :> CellStr(STR_DMK))

\* what a count cell may hold: nothing, a placeholder, blanks, a word, a
\* number as text, a number, and the abbreviation INF
CountCells ==
    { CellNaN, CellStr(<<"-">>), CellStr(<<" ">>), CellStr(<<"x">>),
      CellStr(<<"2">>), CellNum(3), CellStr(<<"I", "N", "F">>) }

\* the four counts of a row: every kind of cell as Luggage, and rows whose
\* other counts are words or blanks
CountPatterns ==
    { <<CellNum(1), CellStr(<<"-">>), l, CellNaN>> : l \in CountCells }
    \cup { <<CellStr(<<"x">>), CellNaN, CellNaN, CellStr(<<" ">>)>>,
           <<CellNaN, CellStr(<<"x">>), CellNum(2), CellStr(<<"x">>)>> }

FlightCells == {CellNum(1), CellNum(2)}

\* what the quantity cell of the simple layout may hold
QtyCells ==
    { CellNaN, CellStr(<<"-">>), CellStr(<<"x">>), CellStr(<<"2">>),
      CellNum(1), CellNum(3) }

\* sheets in the detailed layout: a first row, which the extraction skips,
\* and the data rows
DetailedSheets ==
    {[ncols |-> 17,
      rows |-> <<DetailedRow(17, CellNum(1),
                            <<CellNaN, CellNaN, CellNum(1), CellNaN>>)>> \o body] :
        body \in SeqsUpTo({DetailedRow(17, f, p) :
                              f \in FlightCells, p \in CountPatterns},
                          MaxSheetRows)}

SimpleSheets ==
    {[ncols |-> 6, rows |-> body] :
        body \in SeqsUpTo({SimpleRow(6, f, q) : f \in FlightCells, q \in QtyCells},
                          MaxSheetRows)}

\* valid settings with varied cells
CellInputs ==
    {<<[DefaultConfig EXCEPT !.layout_mode = "detailed"], d>> : d \in DetailedSheets}
    \cup {<<DefaultConfig, d>> : d \in SimpleSheets}

\* settings of the detailed layout: the width of the sheet, the destination
\* column and the origin, fixed or read from a column
DetailedConfigs ==
    {[DefaultConfig EXCEPT !.layout_mode = "detailed", !.dest_col_idx = dc,
                           !.origin_mode = om[1], !.c_origin = om[2]] :
        dc \in {16, 17},
        om \in {<<"fix", -1>>, <<"column", 6>>, <<"column", 17>>, <<"column", 18>>}}

\* settings of the simple layout: the quantity column and the origin
SimpleConfigs ==
    {[DefaultConfig EXCEPT !.c_qty = cq, !.origin_mode = om[1], !.c_origin = om[2]] :
        cq \in {5, 6, 7},
        om \in {<<"fix", -1>>, <<"column", 6>>, <<"column", 7>>}}

\* varied settings on sheets of varied width, each with one data row
ConfigInputs ==
    {<<cfg, [ncols |-> n,
             rows |-> <<DetailedRow(n, CellNum(1), <<CellNaN, CellNaN, CellNum(1), CellNaN>>),
                        DetailedRow(n, CellNum(1), <<CellNaN, CellNaN, CellNum(3), CellNaN>>)>>]>> :
        cfg \in DetailedConfigs, n \in {14, 17, 18}}
    \cup
    {<<cfg, [ncols |-> n, rows |-> <<SimpleRow(n, CellNum(1), CellNum(3))>>]>> :
        cfg \in SimpleConfigs, n \in {6, 7}}

\* capacities, scaled down from the slider's 10..100 so that a few units fill a truck
Capacities == {1, 2, 3}

\* rows of one flight group with varied destinations and quantities
PackRows ==
    [Origin : {STR_BKK}, Country : {1}, Date : {1}, Time : {1}, Flight : {1},
     Destination : {STR_A, STR_B}, Total_Items : 0..MaxQty, Group : {STR_dash}]

\* origins: one that needs strip and upper, the two airports, an unknown one
RunOrigins == {<<" ", "b", "k", "k">>, STR_BKK, STR_DMK, <<"X">>}

RunRows ==
    [Origin : RunOrigins, Country : {1}, Date : {1}, Time : {1}, Flight : {1},
     Destination : {STR_A}, Total_Items : {0, 3}, Group : {STR_dash}]

Digit == <<"1", "2", "3", "4", "5", "6", "7", "8", "9">>

\* a record of the roster; fetch_drivers has uppercased and trimmed Station
DriverRec(i, st) ==
    [License_Plate |-> <<"P", Digit[i]>>, Driver_Name |-> <<"D", Digit[i]>>,
     Phone |-> <<Digit[i]>>, Station |-> st]

Rosters ==
    {[i \in 1..Len(sts) |-> DriverRec(i, sts[i])] :
        sts \in SeqsUpTo({STR_BKK, STR_ANY}, MaxDrivers)}

\* origins that hold an airport code inside a longer station name, that hold
\* both codes, and one that holds none
StationOrigins ==
    { <<" ", "x", "b", "k", "k">>, <<"D", "M", "K", "X">>,
      <<"D", "M", "K", "B", "K", "K">>, <<"h", "k", "t">> }

StationRows ==
    [Origin : StationOrigins, Country : {1}, Date : {1}, Time : {1},
     Flight : {1}, Destination : {STR_A}, Total_Items : {3},
     Group : {STR_dash}]

\* rosters whose stations are airport codes, longer names that hold a code,
\* another station and ANY
StationRosters ==
    {[i \in 1..Len(sts) |-> DriverRec(i, sts[i])] :
        sts \in SeqsUpTo({STR_BKK, STR_DMK, <<"X", "B", "K", "K">>,
                          <<"D", "M", "K", "X">>, <<"H", "K", "T">>, STR_ANY},
                         MaxDrivers)}

\* destinations as the sheet may hold them: the invalid values in some
\* spelling, blank, and names with and without spaces around them
RawDests ==
    { <<" ", "N", "a", "N">>, <<" ">>, <<"N", "o", "n", "e">>,
      <<"N", "a", "T">>, <<"#", "N", "/", "A", " ">>, <<" ", "A", " ">>,
      STR_B }

\* rows of one flight group: rows that count, with any destination, and rows
\* of quantity 0 or below
DestRows ==
    [Origin : {STR_BKK}, Country : {1}, Date : {1}, Time : {1}, Flight : {1},
     Destination : RawDests, Total_Items : {1, 3}, Group : {STR_dash}]
    \cup
    [Origin : {STR_BKK}, Country : {1}, Date : {1}, Time : {1}, Flight : {1},
     Destination : {<<" ", "N", "a", "N">>, STR_B}, Total_Items : {-1, 0},
     Group : {STR_dash}]

\* rows of the detailed layout with a date, a flight or a time missing
KeyRowsDetailed ==
    {MkRow(17, 1 :> d @@ 2 :> f @@ 3 :> t @@ 4 :> CellStr(<<"G">>)
               @@ 13 :> CellNum(3) @@ 16 :> CellStr(STR_A)) :
        d \in {CellNum(1), CellNaN}, f \in {CellNum(1), CellNaN},
        t \in {CellNum(1), CellNaN}}

\* rows of the simple layout with the country, the date, the time, the
\* flight or the quantity missing
KeyRowsSimple ==
    {MkRow(6, 0 :> k[1] @@ 1 :> k[2] @@ 2 :> f @@ 3 :> k[3]
              @@ 4 :> CellStr(STR_A) @@ 5 :> q) :
        k \in { <<CellNum(1), CellNum(1), CellNum(1)>>,
                <<CellNaN, CellNum(1), CellNum(1)>>,
                <<CellNum(1), CellNaN, CellNum(1)>>,
                <<CellNum(1), CellNum(1), CellNaN>> },
        f \in {CellNum(1), CellNaN}, q \in {CellNum(3), CellNaN}}

\* valid settings on sheets with missing key values
KeyInputs ==
    {<<[DefaultConfig EXCEPT !.layout_mode = "detailed"],
       [ncols |-> 17,
        rows |-> <<DetailedRow(17, CellNum(1),
                              <<CellNaN, CellNaN, CellNum(1), CellNaN>>)>> \o body]>> :
        body \in SeqsUpTo(KeyRowsDetailed, MaxSheetRows)}
    \cup {<<DefaultConfig, [ncols |-> 6, rows |-> body]>> :
              body \in SeqsUpTo(KeyRowsSimple, MaxSheetRows)}

----------------------------------------------------------------------------
(* The planning run *)

\* a trucks list that is kept from one call of optimize_transport to the next
TrucksAtEntry_shared == trucks

\* optimize_transport starts every call with trucks = []
TrucksAtEntry == <<>>

\* a frame that always has the multi_drop column
MetricsRaise_never(ts) == FALSE

\* truck_df = pd.DataFrame(all_trucks) has no column at all when all_trucks
\* is empty, so truck_df["multi_drop"] raises KeyError
MetricsRaise(ts) == ts = <<>>

InitWith(rowsets, caps, rosters) ==
    /\ config = ColumnConfig
    /\ df = SheetRead
    /\ bags_per_truck \in caps
    /\ data \in rowsets
    /\ drivers_list \in rosters
    /\ run = 1
    /\ prev_trucks = <<>>
    /\ pc = "groups"
    /\ groups_left = SortedGroups(data)
    /\ station_key = STR_ANY
    /\ dest_groups = <<>>
    /\ qty_left = 0
    /\ trucks = <<>>
    /\ full_made = {}
    /\ t_idx = 1
    /\ station_indices =
          [k \in DOMAIN DriversByStation(drivers_list) |-> StationIndexStart(k)]
    /\ idx_any = IdxAnyStart
    /\ all_trucks = <<>>
    /\ current_truck_global_id = 0

\* a run over a sheet of several flight groups and a roster
Init == InitWith(SeqsUpTo(RunRows, MaxRunRows), {2}, Rosters)

\* optimize_transport applied to the rows of one flight group
InitPack == InitWith(SeqsUpTo(PackRows, MaxRows), Capacities, {<<>>})

\* a run over groups whose origins and roster stations overlap
InitStation == InitWith(SeqsUpTo(StationRows, MaxStationRows), {2}, StationRosters)

\* optimize_transport applied to rows with raw destinations and with
\* quantities of 0 and below
InitDest == InitWith(SeqsUpTo(DestRows, MaxDestRows), {3}, {<<>>})

\* a run from the upload on: the sheet is read, the roster is empty
InitSheet ==
    /\ \E in \in CellInputs \cup ConfigInputs \cup KeyInputs :
          config = in[1] /\ df = in[2]
    /\ bags_per_truck = 2
    /\ data = <<>>
    /\ drivers_list = <<>>
    /\ run = 1
    /\ prev_trucks = <<>>
    /\ pc = "extract"
    /\ groups_left = <<>>
    /\ station_key = STR_ANY
    /\ dest_groups = <<>>
    /\ qty_left = 0
    /\ trucks = <<>>
    /\ full_made = {}
    /\ t_idx = 1
    /\ station_indices = [k \in {} |-> 0]
    /\ idx_any = IdxAnyStart
    /\ all_trucks = <<>>
    /\ current_truck_global_id = 0

\* DATA EXTRACTION: the bounds test of the layout, then the normalised rows
\* and their groups
Extract ==
    /\ pc = "extract"
    /\ IF BoundsError(config, df.ncols)
       THEN /\ pc' = "config_error"
            /\ UNCHANGED <<data, groups_left>>
       ELSE /\ data' = ExtractData(config, df)
            /\ groups_left' = SortedGroups(data')
            /\ pc' = "groups"
    /\ UNCHANGED <<config, df, bags_per_truck, drivers_list, run, prev_trucks,
                   station_key, dest_groups, qty_left, trucks, full_made,
                   t_idx, station_indices, idx_any, all_trucks,
                   current_truck_global_id>>

\* top of the loop over sorted_groups: resolve the station key, build and
\* sort dest_groups; a group without positive rows yields no truck
StartGroup ==
    /\ pc = "groups"
    /\ groups_left # <<>>
    /\ LET group_df == GroupDf(data, Head(groups_left))
           items == SortDestGroups(BuildDestGroups(group_df))
       IN  /\ station_key' = ResolveStation(group_df[1].Origin,
                                            DriversByStation(drivers_list))
           /\ dest_groups' = items
           /\ qty_left' = IF items = <<>> THEN 0 ELSE items[1].qty
           /\ pc' = IF items = <<>> THEN "groups" ELSE "pack"
           /\ groups_left' = IF items = <<>> THEN Tail(groups_left) ELSE groups_left
    /\ trucks' = TrucksAtEntry
    /\ full_made' = {}
    /\ t_idx' = 1
    /\ UNCHANGED <<config, df, bags_per_truck, data, drivers_list, run, prev_trucks,
                   station_indices, idx_any, all_trucks,
                   current_truck_global_id>>

\* one pass of the while loop: a full truck of the current item
FullTruck ==
    /\ pc = "pack"
    /\ FullTruckCond(qty_left, bags_per_truck)
    /\ qty_left # Inf
    /\ trucks' = Append(trucks, NewTruck(Head(dest_groups), bags_per_truck))
    /\ full_made' = full_made \cup {Len(trucks) + 1}
    /\ qty_left' = qty_left - bags_per_truck
    /\ UNCHANGED <<config, df, bags_per_truck, data, drivers_list, run, prev_trucks,
                   groups_left, station_key, dest_groups, t_idx,
                   station_indices, idx_any, all_trucks,
                   current_truck_global_id, pc>>

\* the while loop with qty_left = inf: inf - max_cap is inf, so the loop
\* appends trucks until memory is exhausted; the MemoryError is caught by the
\* handler around the main logic, which reports an error instead of a plan
FullTruckForever ==
    /\ pc = "pack"
    /\ FullTruckCond(qty_left, bags_per_truck)
    /\ qty_left = Inf
    /\ pc' = "error"
    /\ UNCHANGED <<config, df, bags_per_truck, data, drivers_list, run,
                   prev_trucks, groups_left, station_key, dest_groups,
                   qty_left, trucks, full_made, t_idx, station_indices,
                   idx_any, all_trucks, current_truck_global_id>>

\* the while loop is left: place the remainder, go to the next item or return
Remainder ==
    /\ pc = "pack"
    /\ ~FullTruckCond(qty_left, bags_per_truck)
    /\ trucks' = PlaceRemainder(trucks, Head(dest_groups), qty_left, bags_per_truck)
    /\ dest_groups' = Tail(dest_groups)
    /\ qty_left' = IF Tail(dest_groups) = <<>> THEN 0 ELSE dest_groups[2].qty
    /\ pc' = IF Tail(dest_groups) = <<>> THEN "assign" ELSE "pack"
    /\ UNCHANGED <<config, df, bags_per_truck, data, drivers_list, run, prev_trucks,
                   groups_left, station_key, full_made, t_idx,
                   station_indices, idx_any, all_trucks,
                   current_truck_global_id>>

\* one pass of the loop over the trucks of the group: annotate, pick a driver
AssignDriver ==
    /\ pc = "assign"
    /\ t_idx <= Len(trucks)
    /\ LET dbs == DriversByStation(drivers_list)
           c == PoolChoice(station_key, dbs)
           first == GroupDf(data, Head(groups_left))[1]
           drv == SelectedDriver(station_key, dbs, station_indices, idx_any)
       IN  /\ all_trucks' = Append(all_trucks, Annotate(trucks[t_idx], first, drv))
           /\ station_indices' = AdvanceStation(station_indices, station_key, c)
           /\ idx_any' = AdvanceAny(idx_any, c)
    /\ current_truck_global_id' = current_truck_global_id + 1
    /\ t_idx' = t_idx + 1
    /\ pc' = IF t_idx = Len(trucks) THEN "groups" ELSE "assign"
    /\ groups_left' = IF t_idx = Len(trucks) THEN Tail(groups_left) ELSE groups_left
    /\ UNCHANGED <<config, df, bags_per_truck, data, drivers_list, run, prev_trucks,
                   station_key, dest_groups, qty_left, trucks, full_made>>

\* the loop over sorted_groups is exhausted: truck_df is built from
\* all_trucks and the metrics are computed; an exception there is caught by
\* the handler around the main logic, which reports an error instead of a plan
Finish ==
    /\ pc = "groups"
    /\ groups_left = <<>>
    /\ pc' = IF MetricsRaise(all_trucks) THEN "error" ELSE "done"
    /\ UNCHANGED <<config, df, bags_per_truck, data, drivers_list, run, prev_trucks,
                   groups_left, station_key, dest_groups, qty_left, trucks,
                   full_made, t_idx, station_indices, idx_any, all_trucks,
                   current_truck_global_id>>

\* the script is executed again on the same upload, settings and roster
Rerun ==
    /\ pc \in {"done", "error"}
    /\ run = 1
    /\ run' = 2
    /\ prev_trucks' = all_trucks
    /\ all_trucks' = <<>>
    /\ current_truck_global_id' = 0
    /\ station_indices' =
          [k \in DOMAIN DriversByStation(drivers_list) |-> StationIndexStart(k)]
    /\ idx_any' = IdxAnyStart
    /\ groups_left' = SortedGroups(data)
    /\ station_key' = STR_ANY
    /\ dest_groups' = <<>>
    /\ qty_left' = 0
    /\ trucks' = <<>>
    /\ full_made' = {}
    /\ t_idx' = 1
    /\ pc' = "groups"
    /\ UNCHANGED <<config, df, bags_per_truck, data, drivers_list>>

Next == StartGroup \/ FullTruck \/ Remainder \/ AssignDriver \/ Finish \/ Rerun

Spec == Init /\ [][Next]_vars

\* one execution of the script
NextRun == StartGroup \/ FullTruck \/ Remainder \/ AssignDriver \/ Finish

SpecRun == Init /\ [][NextRun]_vars

\* the steps of one call of optimize_transport
NextPack == StartGroup \/ FullTruck \/ Remainder

SpecPack == InitPack /\ [][NextPack]_vars

\* one execution of the script from the raw sheet on
NextSheet ==
    \/ Extract \/ StartGroup \/ FullTruck \/ FullTruckForever \/ Remainder
    \/ AssignDriver \/ Finish

SpecSheet == InitSheet /\ [][NextSheet]_vars

SpecStation == InitStation /\ [][NextRun]_vars

SpecDest == InitDest /\ [][NextPack]_vars

----------------------------------------------------------------------------
(* Properties of optimize_transport, checked under SpecPack *)

RECURSIVE SumItems(_)
SumItems(ts) == IF ts = <<>> THEN 0 ELSE Head(ts).items + SumItems(Tail(ts))

RECURSIVE SumPositive(_)
SumPositive(rows) ==
    IF rows = <<>> THEN 0
    ELSE (IF Head(rows).Total_Items > 0 THEN Head(rows).Total_Items ELSE 0)
         + SumPositive(Tail(rows))

\* optimize_transport has returned trucks for the group
Returned == pc = "assign" \/ (pc = "groups" /\ groups_left = <<>>)

\* C1: in every state of the packing loop and in the result, every truck
\* holds more than 0 and at most bags_per_truck items.
C1_Capacity ==
    \A i \in 1..Len(trucks) :
        trucks[i].items > 0 /\ trucks[i].items <= bags_per_truck

\* a result with a truck filled to the brim by a remainder beside a part-filled one
C1_Witness ==
    /\ pc = "assign"
    /\ \E i, j \in 1..Len(trucks) :
          /\ trucks[i].items = bags_per_truck /\ Len(trucks[i].load) > 1
          /\ trucks[j].items < bags_per_truck

\* C2: the items of the returned trucks add up to the positive quantities of
\* the rows of the group.
C2_Conservation == Returned => SumItems(trucks) = SumPositive(data)

\* a result where an item was split into full trucks and a remainder, from a
\* sheet that also has a row of quantity 0
C2_Witness ==
    /\ pc = "assign"
    /\ full_made # {}
    /\ \E i \in 1..Len(trucks) : i \notin full_made
    /\ \E r \in 1..Len(data) : data[r].Total_Items = 0

\* C3: in every state of the packing loop and in the result, multi_drop of a
\* truck is true exactly when the truck has more than one distinct stop.
C3_MultiDrop ==
    \A i \in 1..Len(trucks) :
        trucks[i].multi_drop = (Cardinality(trucks[i].stops) > 1)

\* a truck that received two load entries for the same destination
C3_Witness ==
    \E i \in 1..Len(trucks) :
        /\ Len(trucks[i].load) > 1
        /\ Cardinality(trucks[i].stops) = 1
        /\ ~trucks[i].multi_drop

\* a truck as the while loop creates it
IsPureFull(t) ==
    /\ Cardinality(t.stops) = 1
    /\ Len(t.load) = 1
    /\ t.load[1].qty = bags_per_truck
    /\ t.load[1].dest \in t.stops
    /\ t.items = bags_per_truck
    /\ ~t.multi_drop

\* C4: a truck appended by the while loop has one stop, one load entry of
\* bags_per_truck units and multi_drop false, and no later step of the same
\* group changes it.
C4_FullTruckPurity ==
    /\ [](\A i \in full_made : IsPureFull(trucks[i]))
    /\ [][\A i \in full_made \cap full_made' : trucks'[i] = trucks[i]]_vars

\* a result with a full truck and, elsewhere, a truck that took two remainders
C4_Witness ==
    /\ pc = "assign"
    /\ full_made # {}
    /\ \E j \in 1..Len(trucks) : j \notin full_made /\ Len(trucks[j].load) > 1

\* C5 as claimed: every returned truck with items = bags_per_truck has one
\* stop and multi_drop false.
C5_EveryFullTruckDirect ==
    Returned =>
        \A i \in 1..Len(trucks) :
            trucks[i].items = bags_per_truck =>
                Cardinality(trucks[i].stops) = 1 /\ ~trucks[i].multi_drop

\* C5 amended: every returned truck that carries a full truckload of one
\* item (a load entry of bags_per_truck units) has one stop, one load entry
\* and multi_drop false.
C5_FullLoadDirect ==
    Returned =>
        \A i \in 1..Len(trucks) :
            (\E k \in 1..Len(trucks[i].load) :
                    trucks[i].load[k].qty = bags_per_truck) =>
                /\ Cardinality(trucks[i].stops) = 1
                /\ Len(trucks[i].load) = 1
                /\ ~trucks[i].multi_drop

\* a result with a full truckload of one item and a multi-drop truck that
\* remainders filled to capacity
C5_Witness ==
    /\ pc = "assign"
    /\ \E i, j \in 1..Len(trucks) :
          /\ trucks[i].load[1].qty = bags_per_truck
          /\ trucks[j].items = bags_per_truck /\ trucks[j].multi_drop

----------------------------------------------------------------------------
(* Properties of the driver assignment, checked under SpecRun (C10: Spec) *)

\* the roster has a driver of station k
HasPool(k) == \E i \in 1..Len(drivers_list) : drivers_list[i].Station = k

\* the drivers of station k, in roster order
PoolOf(k) == SelectSeq(drivers_list, LAMBDA d : d.Station = k)

\* the station key of the i-th annotated truck
KeyOfTruck(i) ==
    ResolveStation(all_trucks[i].Origin, DriversByStation(drivers_list))

\* the i-th annotated truck carries the columns of driver d
HasDriver(i, d) ==
    /\ all_trucks[i].Car_Plate = d.License_Plate
    /\ all_trucks[i].Driver = d.Driver_Name
    /\ all_trucks[i].Phone = d.Phone

\* C6: the N-th truck (from 0, over all groups of the run) whose station key
\* is a station with a pool of its own receives pool[N mod len(pool)].
C6_StationRoundRobin ==
    LET keys == [i \in 1..Len(all_trucks) |-> KeyOfTruck(i)]
    IN  \A i \in 1..Len(all_trucks) :
            LET k == keys[i]
                N == Cardinality({j \in 1..(i - 1) : keys[j] = k})
            IN  HasPool(k) => HasDriver(i, PoolOf(k)[(N % Len(PoolOf(k))) + 1])

\* a pool of two drivers that served three trucks of two flight groups
C6_Witness ==
    \E i, j \in 1..Len(all_trucks) :
        /\ i < j
        /\ KeyOfTruck(i) = KeyOfTruck(j)
        /\ all_trucks[i].Origin # all_trucks[j].Origin
        /\ Len(PoolOf(KeyOfTruck(j))) = 2
        /\ Cardinality({h \in 1..(j - 1) : KeyOfTruck(h) = KeyOfTruck(j)}) >= 2

\* the pool that serves the i-th annotated truck: its station's own pool,
\* else the ANY pool
ServingPool(i) == IF HasPool(KeyOfTruck(i)) THEN KeyOfTruck(i) ELSE STR_ANY

\* C7: the trucks served by one pool, the ANY pool included, receive
\* pool[0], pool[1], ... in assignment order, whether they reach the pool
\* by their station key or by the fallback.
C7_PoolRoundRobin ==
    LET pools == [i \in 1..Len(all_trucks) |-> ServingPool(i)]
    IN  \A i \in 1..Len(all_trucks) :
            LET p == pools[i]
                M == Cardinality({j \in 1..(i - 1) : pools[j] = p})
            IN  HasPool(p) => HasDriver(i, PoolOf(p)[(M % Len(PoolOf(p))) + 1])

\* the next step annotates a truck
AtAssign == pc = "assign" /\ t_idx <= Len(trucks)

\* C8: a truck whose station has no pool, the ANY pool not being empty,
\* gets the driver ANY[idx_any mod len] and the step advances idx_any only;
\* a truck served by its station's own pool leaves idx_any alone.
C8_FallbackCursor ==
    [][AtAssign =>
         /\ (~HasPool(station_key) /\ HasPool(STR_ANY)) =>
               /\ LET d == PoolOf(STR_ANY)[(idx_any % Len(PoolOf(STR_ANY))) + 1]
                      t == all_trucks'[Len(all_trucks')]
                  IN  /\ t.Car_Plate = d.License_Plate
                      /\ t.Driver = d.Driver_Name
                      /\ t.Phone = d.Phone
               /\ idx_any' = idx_any + 1
               /\ station_indices' = station_indices
         /\ HasPool(station_key) => idx_any' = idx_any]_vars

\* both kinds of assignment happened in one run
C8_Witness ==
    /\ idx_any > 0
    /\ \E k \in DOMAIN station_indices : station_indices[k] > 0

RECURSIVE ExpectedTrucks(_)
\* the trucks of the groups ks, packed group by group
ExpectedTrucks(ks) ==
    IF ks = <<>> THEN <<>>
    ELSE OptimizeTransport(GroupDf(data, Head(ks)), bags_per_truck)
         \o ExpectedTrucks(Tail(ks))

\* the packing columns of an annotated truck
Core(t) ==
    [stops |-> t.stops, items |-> t.items, load |-> t.load,
     multi_drop |-> t.multi_drop]

\* C9: a truck for which neither its station nor ANY has a driver gets
\* ("No Driver", "-", "-"), the step changes no cursor, and the finished run
\* holds exactly the trucks the packing of its groups yields, whatever the
\* roster.
C9_NoDriver ==
    /\ [](\A i \in 1..Len(all_trucks) :
            (~HasPool(KeyOfTruck(i)) /\ ~HasPool(STR_ANY)) =>
                /\ all_trucks[i].Car_Plate = <<"N", "o", " ", "D", "r", "i", "v", "e", "r">>
                /\ all_trucks[i].Driver = <<"-">>
                /\ all_trucks[i].Phone = <<"-">>)
    /\ [][(AtAssign /\ ~HasPool(station_key) /\ ~HasPool(STR_ANY)) =>
            (idx_any' = idx_any /\ station_indices' = station_indices)]_vars
    /\ [](pc = "done" =>
            [i \in 1..Len(all_trucks) |-> Core(all_trucks[i])]
                = ExpectedTrucks(SortedGroups(data)))

\* a finished run with a roster where one truck got a driver and another none
C9_Witness ==
    /\ pc = "done"
    /\ \E i, j \in 1..Len(all_trucks) :
          /\ all_trucks[i].Car_Plate = STR_NoDriver
          /\ all_trucks[j].Car_Plate # STR_NoDriver

\* C10: the second execution on the same rows, capacity and roster ends with
\* the same annotated trucks as the first, and every execution starts with
\* all cursors at 0.
C10_Determinism ==
    /\ []((pc = "done" /\ run = 2) => all_trucks = prev_trucks)
    /\ [][run' # run =>
            /\ idx_any' = 0
            /\ \A k \in DOMAIN station_indices' : station_indices'[k] = 0]_vars

\* a second execution is finished after both the fallback cursor and a
\* station cursor moved
C10_Witness ==
    /\ pc = "done"
    /\ run = 2
    /\ idx_any > 0
    /\ \E k \in DOMAIN station_indices : station_indices[k] > 0
    /\ Len(all_trucks) >= 3

----------------------------------------------------------------------------
(* Properties of the flight groups of a run *)

\* t belongs to the flight group of row r
SameFlightGroup(t, r) ==
    /\ r.Origin = t.Origin /\ r.Country = t.Country /\ r.Date = t.Date
    /\ r.Time = t.Time /\ r.Flight = t.Flight

\* C11: every load entry of an annotated truck is the destination of a
\* positive row of the truck's own flight group, the trucks of one flight
\* group never hold more than the positive quantities of its rows, and no
\* step of the run changes or removes a truck that is already annotated.
C11_GroupIsolation ==
    /\ [](\A i \in 1..Len(all_trucks) :
            LET t == all_trucks[i]
                rows == SelectSeq(data, LAMBDA r : SameFlightGroup(t, r))
                mates == SelectSeq(all_trucks, LAMBDA u : SameFlightGroup(t, u))
            IN  /\ \A e \in 1..Len(t.load) :
                      \E r \in 1..Len(rows) :
                          /\ rows[r].Total_Items > 0
                          /\ DestOf(rows[r]) = t.load[e].dest
                /\ SumItems(mates) <= SumPositive(rows))
    /\ [][run' = run =>
            \A i \in 1..Len(all_trucks) :
                /\ i <= Len(all_trucks')
                /\ all_trucks'[i] = all_trucks[i]]_vars

\* a finished run where the last truck of an earlier group had room for the
\* remainder that a later group put on a truck of its own
C11_Witness ==
    /\ pc = "done"
    /\ \E i, j \in 1..Len(all_trucks) :
          /\ i < j
          /\ all_trucks[i].Origin # all_trucks[j].Origin
          /\ all_trucks[j].items < bags_per_truck
          /\ all_trucks[i].items + all_trucks[j].items <= bags_per_truck

\* the run is over, with a plan or with the error message
RunEnded == pc \in {"done", "error"}

\* C12: a run whose rows hold no positive quantity ends with an empty truck
\* list and without the error outcome.
C12_EmptyDemandNoOp ==
    (RunEnded /\ SumPositive(data) = 0) => (pc = "done" /\ all_trucks = <<>>)

\* C14: the truck records of the run carry a field whose values differ
\* between any two trucks of the run.
C14_UniqueIdentifier ==
    all_trucks # <<>> =>
        \E f \in DOMAIN all_trucks[1] :
            \A i, j \in 1..Len(all_trucks) :
                i # j => all_trucks[i][f] # all_trucks[j][f]

\* the rows of the sheet that take part in the packing, in sheet order
PositiveRows == SelectSeq(data, LAMBDA r : r.Total_Items > 0)

\* C20: when the packing of a group starts, dest_groups holds the positive
\* rows in descending order of Total_Items, rows of equal Total_Items in
\* sheet order; the items are then taken from the head of that list, one
\* after the other.
C20_LargestFirstStable ==
    /\ []((pc = "pack" /\ trucks = <<>>) =>
            /\ Len(dest_groups) = Len(PositiveRows)
            /\ \A i, j \in 1..Len(dest_groups) :
                  i < j => dest_groups[i].qty >= dest_groups[j].qty
            /\ \A q \in {r.Total_Items : r \in {PositiveRows[n] : n \in 1..Len(PositiveRows)}} :
                  LET same == SelectSeq(dest_groups, LAMBDA x : x.qty = q)
                      orig == SelectSeq(PositiveRows, LAMBDA r : r.Total_Items = q)
                  IN  /\ Len(same) = Len(orig)
                      /\ \A n \in 1..Len(same) : same[n].dest = DestOf(orig[n]))
    /\ [][(pc = "pack" /\ dest_groups' # dest_groups) =>
            dest_groups' = Tail(dest_groups)]_vars

\* the third row is the largest and leaves the smallest remainder, the first
\* two rows are equal and go to different places: the largest was processed
\* first, the first row second, and the second row is the one still waiting
C20_Witness ==
    /\ pc = "pack"
    /\ Len(data) = 3
    /\ data[1].Total_Items = data[2].Total_Items
    /\ data[1].Destination # data[2].Destination
    /\ data[3].Total_Items > data[1].Total_Items
    /\ data[3].Total_Items % bags_per_truck < data[1].Total_Items % bags_per_truck
    /\ Len(dest_groups) = 1
    /\ dest_groups[1].dest = data[2].Destination
    /\ Len(trucks) >= 2

\* the trimmed, uppercased origin of the group in work
OriginRaw == Upper(Strip(GroupDf(data, Head(groups_left))[1].Origin))

\* a group is in work: its station key is resolved
InGroup == pc \in {"pack", "assign"}

\* C15 as stated: BKK when the origin holds "BKK", else DMK when it holds
\* "DMK", else the origin itself when the roster has a pool of that name,
\* else ANY.
C15_SubstringFirst ==
    InGroup =>
        station_key = IF Contains(STR_BKK, OriginRaw) THEN STR_BKK
                      ELSE IF Contains(STR_DMK, OriginRaw) THEN STR_DMK
                      ELSE IF HasPool(OriginRaw) THEN OriginRaw
                      ELSE STR_ANY

\* C15: the station key is the trimmed, uppercased origin itself when the
\* roster has a pool of exactly that name; else BKK when the origin holds
\* "BKK", else DMK when it holds "DMK", else ANY.
C15_ExactFirst ==
    InGroup =>
        station_key = IF HasPool(OriginRaw) THEN OriginRaw
                      ELSE IF Contains(STR_BKK, OriginRaw) THEN STR_BKK
                      ELSE IF Contains(STR_DMK, OriginRaw) THEN STR_DMK
                      ELSE STR_ANY

\* a truck of an origin that holds "BKK" is annotated while the roster has a
\* BKK pool and a pool named like the origin
C15_Witness ==
    /\ pc = "assign"
    /\ Len(all_trucks) > 0
    /\ Contains(STR_BKK, OriginRaw)
    /\ OriginRaw # STR_BKK
    /\ HasPool(OriginRaw)
    /\ HasPool(STR_BKK)

\* C16: rows of quantity 0 or below never enter dest_groups, and the trucks
\* returned for a sheet are the trucks returned for the sheet without those
\* rows; every stop of a truck is the destination of a row that counts.
C16_ZeroRowsInert ==
    /\ pc = "pack" => \A n \in 1..Len(dest_groups) : dest_groups[n].qty > 0
    /\ Returned =>
          /\ trucks = OptimizeTransport(PositiveRows, bags_per_truck)
          /\ \A i \in 1..Len(trucks) :
                \A d \in trucks[i].stops :
                    \E n \in 1..Len(PositiveRows) : DestOf(PositiveRows[n]) = d

\* a result for a sheet with a row of quantity 0 or below between two rows
\* that count, its destination being the destination of no other row
C16_Witness ==
    /\ pc = "assign"
    /\ Len(data) = 3
    /\ data[1].Total_Items > 0
    /\ data[2].Total_Items <= 0
    /\ data[3].Total_Items > 0
    /\ DestOf(data[2]) # DestOf(data[1])
    /\ DestOf(data[2]) # DestOf(data[3])
    /\ Len(trucks) >= 2

\* what the destination of a row of the destination family has to become
ExpectedDest(d) ==
    IF d = <<" ", "A", " ">> THEN <<"A">>
    ELSE IF d = <<"B">> THEN <<"B">>
    ELSE <<"O", "t", "h", "e", "r">>

\* C17: the returned trucks are those of the sheet with every destination
\* trimmed and every invalid one replaced by "Other"; the stops of a truck
\* are the destinations of its load entries, names or "Other", and
\* multi_drop tells whether there is more than one of them.
C17_DestNormalised ==
    Returned =>
        /\ trucks = OptimizeTransport(
                        [n \in 1..Len(data) |->
                            [data[n] EXCEPT !.Destination = ExpectedDest(@)]],
                        bags_per_truck)
        /\ \A i \in 1..Len(trucks) :
              LET t == trucks[i]
              IN  /\ t.stops = {t.load[e].dest : e \in 1..Len(t.load)}
                  /\ t.stops \subseteq {<<"A">>, <<"B">>, <<"O", "t", "h", "e", "r">>}
                  /\ t.multi_drop = (Cardinality(t.stops) > 1)

\* a truck that carries two rows with different invalid destinations and a
\* row with a name: it has two stops
C17_Witness ==
    /\ pc = "assign"
    /\ Len(data) = 3
    /\ data[1].Destination = <<" ", "N", "a", "N">>
    /\ data[2].Destination = <<"#", "N", "/", "A", " ">>
    /\ data[3].Destination = <<" ", "A", " ">>
    /\ Len(trucks) = 1
    /\ Len(trucks[1].load) = 3
    /\ trucks[1].stops = {<<"O", "t", "h", "e", "r">>, <<"A">>}
    /\ trucks[1].multi_drop

----------------------------------------------------------------------------
(* Properties of the data extraction, checked under SpecSheet *)

\* every column index the settings name: those of the layout and, when the
\* origin is read from a column, the origin column
ConfiguredIndices ==
    (IF config.layout_mode = "detailed"
     THEN {1, 2, 3, 4, 9, 11, 12, 13, 14, config.dest_col_idx}
     ELSE {config.c_country, config.c_date, config.c_flight, config.c_time,
           config.c_hotel, config.c_qty})
    \cup (IF config.origin_mode = "column" THEN {config.c_origin} ELSE {})

\* C13: when a configured column index is not below the number of columns
\* of the sheet, the run goes from the extraction to the configuration error
\* and never packs or annotates a truck.
C13_FailFast ==
    (\E idx \in ConfiguredIndices : idx >= df.ncols) =>
        /\ pc \in {"extract", "config_error"}
        /\ trucks = <<>>
        /\ all_trucks = <<>>

\* the raw rows that the extraction keeps
KeptRaw ==
    IF config.layout_mode = "detailed"
    THEN SelectSeq(SubSeq(df.rows, 2, Len(df.rows)),
                   LAMBDA row : row[2] # CellNaN /\ row[3] # CellNaN)
    ELSE SelectSeq(df.rows, LAMBDA row :
                   row[config.c_flight] # CellNaN /\ row[config.c_qty] # CellNaN)

\* what a count cell is worth: a number or a text of digits its value,
\* anything else (missing, "-", blank, a word) nothing
ExpectedCount(x) ==
    IF x.t = "num" THEN x.n
    ELSE IF x.t = "str" /\ AllDigits(Strip(x.s)) THEN DigitsValue(Strip(x.s))
    ELSE 0

ExpectedTotal(row) ==
    IF config.layout_mode = "detailed"
    THEN ExpectedCount(row[11]) + ExpectedCount(row[12])
         + ExpectedCount(row[13]) + ExpectedCount(row[14])
    ELSE ExpectedCount(row[config.c_qty])

RECURSIVE SumExpected(_)
SumExpected(rows) ==
    IF rows = <<>> THEN 0 ELSE ExpectedTotal(Head(rows)) + SumExpected(Tail(rows))

\* the extraction went through
Extracted == pc \notin {"extract", "config_error"}

\* C18: after the extraction every kept row has as Total_Items the sum of
\* its count cells, a cell that is no number counting 0; the run ends in the
\* error state only when those totals are all 0, and a finished run carries
\* in its trucks exactly those totals.
C18_MalformedCountsZero ==
    Extracted =>
        /\ Len(data) = Len(KeptRaw)
        /\ \A i \in 1..Len(data) : data[i].Total_Items = ExpectedTotal(KeptRaw[i])
        /\ (pc = "error" => SumExpected(KeptRaw) = 0)
        /\ (pc = "done" => SumItems(all_trucks) = SumExpected(KeptRaw))

\* the packing of the group with key k does not come to an end
GroupFails(k) ==
    \E n \in 1..Len(data) : GroupKey(data[n]) = k /\ data[n].Total_Items = Inf

\* the trucks that the page shows when the run is over
Reported == IF pc = "done" THEN all_trucks ELSE <<>>

\* C19: when the run is over and the packing of a flight group failed, the
\* trucks of every other flight group are still reported.
C19_GroupErrorIsolation ==
    LET keys == SortedGroups(data)
    IN  (RunEnded /\ \E g \in 1..Len(keys) : GroupFails(keys[g])) =>
            \A g \in 1..Len(keys) :
                ~GroupFails(keys[g]) =>
                    LET mine == SelectSeq(Reported, LAMBDA t :
                                   SameFlightGroup(t, GroupDf(data, keys[g])[1]))
                    IN  [i \in 1..Len(mine) |-> Core(mine[i])]
                            = OptimizeTransport(GroupDf(data, keys[g]),
                                                bags_per_truck)

----------------------------------------------------------------------------
(* Further properties of optimize_transport, checked under SpecPack *)

RECURSIVE SumFull(_, _)
\* the number of whole truckloads in the quantities qs, item by item
SumFull(qs, C) ==
    IF qs = <<>> THEN 0 ELSE (Head(qs) \div C) + SumFull(Tail(qs), C)

\* the quantities of the rows that count, and of the items still in dest_groups
RowQtys == [n \in 1..Len(PositiveRows) |-> PositiveRows[n].Total_Items]
ItemQtys == [n \in 1..Len(dest_groups) |-> dest_groups[n].qty]

\* the truck the while loop has to append for the item in work
FullTruckOf(item) ==
    [stops |-> {item.dest}, items |-> bags_per_truck,
     load |-> <<[dest |-> item.dest, qty |-> bags_per_truck,
                 group |-> item.group]>>,
     multi_drop |-> FALSE]

\* C21: while the item in work has bags_per_truck units or more left, the
\* step appends one truck of bags_per_truck units of its destination and
\* takes them off; the loop is left with q mod C units, and when that is 0
\* the step changes no truck; so the trucks made by the loop number
\* floor(q / C) for every finished item, and those made so far for the item
\* in work.
C21_FullTruckSplit ==
    /\ [](pc = "pack" =>
            LET q == dest_groups[1].qty
            IN  /\ qty_left <= q
                /\ (q - qty_left) % bags_per_truck = 0
                /\ Cardinality(full_made)
                      = SumFull(RowQtys, bags_per_truck)
                        - SumFull(ItemQtys, bags_per_truck)
                        + ((q - qty_left) \div bags_per_truck))
    /\ [](Returned => Cardinality(full_made) = SumFull(RowQtys, bags_per_truck))
    /\ [][(pc = "pack" /\ qty_left >= bags_per_truck) =>
            /\ trucks' = Append(trucks, FullTruckOf(dest_groups[1]))
            /\ qty_left' = qty_left - bags_per_truck]_vars
    /\ [][(pc = "pack" /\ qty_left < bags_per_truck) =>
            /\ qty_left = dest_groups[1].qty % bags_per_truck
            /\ (qty_left = 0 => trucks' = trucks)]_vars

\* a result where an item of whole truckloads and nothing more was packed
\* after a larger item had left a part-filled truck
C21_Witness ==
    /\ pc = "assign"
    /\ Len(data) = 2
    /\ data[1].Total_Items > data[2].Total_Items
    /\ data[1].Total_Items % bags_per_truck # 0
    /\ data[2].Total_Items > 0
    /\ data[2].Total_Items % bags_per_truck = 0
    /\ Len(trucks) = (data[1].Total_Items \div bags_per_truck) + 1
                      + (data[2].Total_Items \div bags_per_truck)
    /\ trucks[Len(trucks)].items = bags_per_truck

\* C22: a remainder r > 0 goes to the first truck in list order whose free
\* space is r or more, which gets r more items, one more load entry and the
\* stop, all other trucks staying as they are; when there is none, a truck
\* holding just r is appended; and no step of the loop moves a truck or
\* takes away from a load.
C22_FirstFitInclusive ==
    /\ [][(pc = "pack" /\ qty_left < bags_per_truck /\ qty_left > 0) =>
            LET r == qty_left
                item == dest_groups[1]
                entry == [dest |-> item.dest, qty |-> r, group |-> item.group]
                fit == {i \in 1..Len(trucks) : bags_per_truck - trucks[i].items >= r}
            IN  IF fit # {}
                THEN LET i == CHOOSE i \in fit : \A j \in fit : i <= j
                     IN  /\ Len(trucks') = Len(trucks)
                         /\ trucks'[i].items = trucks[i].items + r
                         /\ trucks'[i].load = Append(trucks[i].load, entry)
                         /\ trucks'[i].stops = trucks[i].stops \cup {item.dest}
                         /\ \A j \in 1..Len(trucks) : j # i => trucks'[j] = trucks[j]
                ELSE trucks' = Append(trucks,
                                      [stops |-> {item.dest}, items |-> r,
                                       load |-> <<entry>>, multi_drop |-> FALSE])]_vars
    /\ [][pc = "pack" =>
            /\ Len(trucks') >= Len(trucks)
            /\ \A i \in 1..Len(trucks) :
                  SubSeq(trucks'[i].load, 1, Len(trucks[i].load)) = trucks[i].load]_vars

\* two trucks with one unit of room each; the unit that came last went to
\* the first of them and filled it
C22_Witness ==
    /\ pc = "assign"
    /\ Len(trucks) = 2
    /\ full_made = {}
    /\ trucks[1].items = bags_per_truck
    /\ Len(trucks[1].load) = 2
    /\ trucks[1].load[2].qty = bags_per_truck - trucks[2].items
    /\ Len(trucks[2].load) = 1

RECURSIVE SumLoad(_)
SumLoad(load) == IF load = <<>> THEN 0 ELSE Head(load).qty + SumLoad(Tail(load))

RECURSIVE CountPartEntries(_)
\* the load entries of less than a truckload in the trucks ts
CountPartEntries(ts) ==
    IF ts = <<>> THEN 0
    ELSE Len(SelectSeq(Head(ts).load, LAMBDA e : e.qty < bags_per_truck))
         + CountPartEntries(Tail(ts))

\* the quantities among qs that leave a remainder
WithRemainder(qs) == SelectSeq(qs, LAMBDA q : q % bags_per_truck # 0)

\* C23: in every state of the packing and in the result, the items of a
\* truck are the sum of its load entries, its stops their destinations, its
\* load is not empty and every entry holds 1..C units; the entries of less
\* than C units are as many as the finished items that leave a remainder.
C23_LoadConsistency ==
    /\ \A i \in 1..Len(trucks) :
          LET t == trucks[i]
          IN  /\ t.items = SumLoad(t.load)
              /\ t.stops = {t.load[e].dest : e \in 1..Len(t.load)}
              /\ t.load # <<>>
              /\ \A e \in 1..Len(t.load) :
                    t.load[e].qty >= 1 /\ t.load[e].qty <= bags_per_truck
    /\ (pc = "pack" \/ Returned) =>
          CountPartEntries(trucks)
              = Len(WithRemainder(RowQtys)) - Len(WithRemainder(ItemQtys))

\* a state of the loop with a truck of two remainders, a truck of the while
\* loop and an item still to be packed
C23_Witness ==
    /\ pc = "pack"
    /\ Len(dest_groups) = 1
    /\ qty_left < dest_groups[1].qty
    /\ \E i \in 1..Len(trucks) : Len(trucks[i].load) = 2 /\ i \notin full_made

\* C24: in every state of the packing and in the result, two different
\* trucks hold more than bags_per_truck items together; the result has at
\* least ceil(total / C) trucks and fewer than 2 * total / C + 1.
C24_Density ==
    /\ \A i, j \in 1..Len(trucks) :
          i # j => trucks[i].items + trucks[j].items > bags_per_truck
    /\ Returned =>
          LET n == Len(trucks)
              total == SumPositive(data)
          IN  /\ n * bags_per_truck >= total
              /\ n * bags_per_truck < 2 * total + bags_per_truck

\* a result of three trucks or more with one at most half full beside a
\* truck that remainders have filled
C24_Witness ==
    /\ pc = "assign"
    /\ Len(trucks) >= 3
    /\ \E i, j \in 1..Len(trucks) :
          /\ i # j
          /\ 2 * trucks[i].items <= bags_per_truck
          /\ j \notin full_made
          /\ Len(trucks[j].load) > 1

----------------------------------------------------------------------------
(* The totals of a run, checked under SpecSheet *)

\* C25: a finished run carries in its trucks the positive quantities of all
\* the rows that the extraction kept, which is also the Total Items figure,
\* and every kept row of positive quantity belongs to a flight group.
C25_RunConservation ==
    pc = "done" =>
        /\ SumItems(all_trucks) = SumPositive(data)
        /\ SumItems(all_trucks) = total_items_all(data)
        /\ \A n \in 1..Len(data) :
              data[n].Total_Items > 0 =>
                  \E g \in 1..Len(SortedGroups(data)) :
                      SortedGroups(data)[g] = GroupKey(data[n])

====
